---------------------------- MODULE Spec2Model ----------------------------
(***************************************************************************)
(* Land-use / land-cover change detection (backend-python/lulc.py) and the *)
(* /analyze endpoint that serves it (backend-python/main.py).              *)
(*                                                                         *)
(* Arrays.  A pixel array of shape (H, W, B) is a record                   *)
(* [bands |-> B, px |-> <<pixel_1, ..., pixel_P>>] with P = H * W pixels   *)
(* in row-major order, each pixel the sequence of its B band values; a 2D  *)
(* array of shape (H, W) is a sequence of length P.  Every array operation *)
(* of the program is elementwise, so the flattening loses nothing; where   *)
(* two rasters of different sizes meet, each is a single row of pixels.    *)
(*                                                                         *)
(* Band values.  A band value is a pair <<a, b>> of integers that stands   *)
(* for the real number (a + b * eta) / 255 with eta = 0.5e-8, half of the  *)
(* 1e-8 that the index formulas add to their denominators.  Sums and       *)
(* differences are componentwise and the sign is lexicographic, which is   *)
(* exact for the |b| < 10^8 used here.  Quotients are kept as exact        *)
(* fractions: the float32 rounding of an index value is not modelled (the  *)
(* clip bounds, 0 and the zero denominator are exact in float32 too).      *)
(***************************************************************************)
EXTENDS Integers, Sequences, FiniteSets, TLC

VARIABLES
    image,      \* index calculator: the pixel array it is called with
    ret,        \* index calculator: what each calculate_* call returned
    called,     \* index calculator: the calculate_* calls that have returned
    ndvi,       \* classifier: the three index arrays it is called with
    ndwi,
    ndbi,
    masks,      \* classifier: the five class masks it returned
    perc,       \* aggregator: the percentage record it returned
    stage,      \* classifier and aggregator: which calls have returned
    masks1,     \* change detector: the two sets of class masks it is called with
    masks2,
    change_map, \* change detector: the change map it saved and returned
    runs,       \* run_lulc_change_analysis: the locals of each run compared
    rpc,        \* run_lulc_change_analysis: the step the runs are at
    fs,         \* /analyze: image1.tif and image2.tif in the working directory
    reqs        \* /analyze: the requests received, each with its handler's state

idxVars == <<image, ret, called>>

clsVars == <<ndvi, ndwi, ndbi, masks, perc, stage>>

chgVars == <<masks1, masks2, change_map>>

runVars == <<runs, rpc>>

srvVars == <<fs, reqs>>

vars == <<idxVars, clsVars, chgVars, runVars, srvVars>>

\* what the actions of one component leave alone
notIdxVars == <<clsVars, chgVars, runVars, srvVars>>

notClsVars == <<idxVars, chgVars, runVars, srvVars>>

notChgVars == <<idxVars, clsVars, runVars, srvVars>>

notRunVars == <<idxVars, clsVars, chgVars, srvVars>>

notSrvVars == <<idxVars, clsVars, chgVars, runVars>>

(***************************************************************************)
(* Bounds of the model.                                                    *)
(***************************************************************************)
MaxPixelsIndex == 1

MaxBands == 5

MaxPixelsClassify == 2

MaxPixelsPercent == 3

MaxPixelsChange == 1

MaxPixelsRun == 2

MaxPixelsIsolate == 1

MaxPixelsTotal == 9

NumWorkers == 2

MaxRequests == 2

(***************************************************************************)
(* Band values and index values.                                           *)
(***************************************************************************)
VZero == <<0, 0>>

\* 1.0
VOne == <<255, 0>>

\* the 1e-8 of the index formulas: 2 * eta = (0 + 510 * eta) / 255
EPS == <<0, 510>>

VAdd(x, y) == <<x[1] + y[1], x[2] + y[2]>>

VSub(x, y) == <<x[1] - y[1], x[2] - y[2]>>

VNeg(x) == <<0 - x[1], 0 - x[2]>>

VScale(k, x) == <<k * x[1], k * x[2]>>

VSign(x) ==
    IF x[1] > 0 THEN 1
    ELSE IF x[1] < 0 THEN -1
    ELSE IF x[2] > 0 THEN 1
    ELSE IF x[2] < 0 THEN -1
    ELSE 0

\* An index value is a fraction [n, d] of two band values with d >= 0:
\* d = 0 is the result of a division by zero, NaN (0/0) or +-inf (x/0).
Frac(n, d) == [n |-> n, d |-> d]

NaN == Frac(VZero, VZero)

IsNaN(v) == v.n = VZero /\ v.d = VZero

\* numpy's true division of float arrays: x / 0 is +-inf, 0 / 0 is NaN
Divide(n, d) ==
    IF VSign(d) < 0 THEN Frac(VNeg(n), VNeg(d)) ELSE Frac(n, d)

\* the sign of v - p/q (q > 0) for a v that is not NaN, inf counted as such
CmpRat(v, p, q) ==
    IF v.d = VZero THEN VSign(v.n)
    ELSE VSign(VSub(VScale(q, v.n), VScale(p, v.d)))

\* Comparisons of numpy floats: every comparison with NaN is False.
Gt(v, p, q) == ~IsNaN(v) /\ CmpRat(v, p, q) > 0

Ge(v, p, q) == ~IsNaN(v) /\ CmpRat(v, p, q) >= 0

Lt(v, p, q) == ~IsNaN(v) /\ CmpRat(v, p, q) < 0

Le(v, p, q) == ~IsNaN(v) /\ CmpRat(v, p, q) =< 0

FracInt(k) == Frac(<<k, 0>>, <<1, 0>>)

\* np.clip(v, -1, 1) = minimum(maximum(v, -1), 1); NaN propagates
Clip(v) ==
    IF IsNaN(v) THEN v
    ELSE IF Lt(v, -1, 1) THEN FracInt(-1)
    ELSE IF Gt(v, 1, 1) THEN FracInt(1)
    ELSE v

\* np.zeros((H, W))
Zeros(P) == [i \in 1..P |-> FracInt(0)]

(***************************************************************************)
(* Index calculator.  Bands are 0-based in the source: image[:, :, 3] is   *)
(* the fourth band value of each pixel.                                    *)
(***************************************************************************)
\* A call returns an array or raises.
Ret(v) == [raised |-> FALSE, value |-> v]

Raised == [raised |-> TRUE, value |-> <<>>]

NumPixels(img) == Len(img.px)

Band(img, i, k) == img.px[i][k + 1]

\* (x - y) / (x + y + 1e-8), clipped
NormDiff(x, y) == Clip(Divide(VSub(x, y), VAdd(VAdd(x, y), EPS)))

\* image[:, :, kx] and image[:, :, ky] (IndexError when the array has no
\* such band), then the normalized difference of the two, per pixel
NormDiffOfBands(img, kx, ky) ==
    IF kx >= img.bands \/ ky >= img.bands THEN Raised
    ELSE Ret([i \in 1..NumPixels(img) |->
                NormDiff(Band(img, i, kx), Band(img, i, ky))])

calculate_ndvi(img) ==
    IF img.bands < 4 THEN Ret(Zeros(NumPixels(img)))
    ELSE NormDiffOfBands(img, 3, 2)

calculate_ndwi(img) ==
    IF img.bands < 4 THEN Ret(Zeros(NumPixels(img)))
    ELSE NormDiffOfBands(img, 1, 3)

\* calculate_ndbi with calculate_ndvi's band test (4 for 5)
calculate_ndbi_band_test_4(img) ==
    IF img.bands < 4 THEN Ret(Zeros(NumPixels(img)))
    ELSE NormDiffOfBands(img, 4, 3)

calculate_ndbi(img) ==
    IF img.bands < 5 THEN Ret(Zeros(NumPixels(img)))
    ELSE NormDiffOfBands(img, 4, 3)

(***************************************************************************)
(* SpecIndex: the three index functions called, in any order, on one pixel *)
(* array of 1..MaxBands bands.  Band 0 (blue) and bands past SWIR are read *)
(* by none of the three and are held at 0; the other bands range over      *)
(* 0, -eta, -2 eta (sums that cancel the 1e-8) and 1e6.                    *)
(***************************************************************************)
VTiny == <<0, -255>>

VTiny2 == <<0, -510>>

VHuge == <<255000000, 0>>

BandValuesIndex == {VZero, VTiny, VTiny2, VHuge}

PixelsIndex(B) ==
    LET last == IF B < 5 THEN B ELSE 5
    IN  {[k \in 1..B |-> IF k = 1 \/ k > 5 THEN VZero ELSE f[k]] :
            f \in [2..last -> BandValuesIndex]}

NoRet == [ndvi |-> Raised, ndwi |-> Raised, ndbi |-> Raised]

NoMasks ==
    [built_up |-> <<>>, water |-> <<>>, forest |-> <<>>,
     vegetation |-> <<>>, barren |-> <<>>]

\* the part of the state a specification does not use
IdxIdle == image = [bands |-> 0, px |-> <<>>] /\ ret = NoRet /\ called = {}

ClsIdle ==
    /\ ndvi = <<>> /\ ndwi = <<>> /\ ndbi = <<>>
    /\ masks = NoMasks /\ perc = <<>> /\ stage = "idle"

ChgIdle == masks1 = NoMasks /\ masks2 = NoMasks /\ change_map = <<>>

RunIdle == runs = <<>> /\ rpc = "idle"

Absent == [bands |-> -1, px |-> <<>>]

SrvIdle == fs = [image1 |-> Absent, image2 |-> Absent] /\ reqs = <<>>

InitIndex ==
    /\ RunIdle
    /\ SrvIdle
    /\ \E B \in 1..MaxBands, P \in 1..MaxPixelsIndex :
          \E px \in [1..P -> PixelsIndex(B)] : image = [bands |-> B, px |-> px]
    /\ ret = NoRet
    /\ called = {}
    /\ ClsIdle
    /\ ChgIdle

CallNdvi ==
    /\ "ndvi" \notin called
    /\ ret' = [ret EXCEPT !.ndvi = calculate_ndvi(image)]
    /\ called' = called \cup {"ndvi"}
    /\ UNCHANGED <<image, notIdxVars>>

CallNdwi ==
    /\ "ndwi" \notin called
    /\ ret' = [ret EXCEPT !.ndwi = calculate_ndwi(image)]
    /\ called' = called \cup {"ndwi"}
    /\ UNCHANGED <<image, notIdxVars>>

CallNdbi ==
    /\ "ndbi" \notin called
    /\ ret' = [ret EXCEPT !.ndbi = calculate_ndbi(image)]
    /\ called' = called \cup {"ndbi"}
    /\ UNCHANGED <<image, notIdxVars>>

NextIndex == CallNdvi \/ CallNdwi \/ CallNdbi

SpecIndex == InitIndex /\ [][NextIndex]_vars

\* The bands an index needs, and the formula of section 4.1 written out
\* on one pixel p (p[2] green, p[3] red, p[4] NIR, p[5] SWIR).
BandsNeeded(f) == IF f = "ndbi" THEN 5 ELSE 4

FormulaValue(f, p) ==
    LET x == IF f = "ndvi" THEN p[4] ELSE IF f = "ndwi" THEN p[2] ELSE p[5]
        y == IF f = "ndvi" THEN p[3] ELSE p[4]
        num == <<x[1] - y[1], x[2] - y[2]>>
        den == <<x[1] + y[1], x[2] + y[2] + 510>>
        q == IF VSign(den) < 0 THEN Frac(VNeg(num), VNeg(den)) ELSE Frac(num, den)
    IN  IF q.d = VZero
        THEN IF VSign(q.n) = 0 THEN NaN ELSE FracInt(VSign(q.n))
        ELSE IF VSign(VSub(q.n, q.d)) > 0 THEN FracInt(1)
        ELSE IF VSign(VAdd(q.n, q.d)) < 0 THEN FracInt(-1)
        ELSE q

\* C6: a calculate_* call never raises and returns an array of the image's
\* shape: all zeros when the image has fewer bands than the index needs
\* (4 for NDVI and NDWI, 5 for NDBI), the clipped formula value otherwise.
InsufficientBandsDegrade ==
    \A f \in called :
        /\ ~ret[f].raised
        /\ DOMAIN ret[f].value = 1..NumPixels(image)
        /\ \A i \in 1..NumPixels(image) :
              ret[f].value[i] =
                  IF image.bands < BandsNeeded(f) THEN FracInt(0)
                  ELSE FormulaValue(f, image.px[i])

\* a 4-band image: NDVI from the formula (not 0), NDBI degraded to zeros
InsufficientBandsWitness ==
    /\ image.bands = 4
    /\ called = {"ndvi", "ndwi", "ndbi"}
    /\ ret.ndbi.value[1] = FracInt(0)
    /\ Gt(ret.ndvi.value[1], 0, 1)

InRange(v) == Ge(v, -1, 1) /\ Le(v, 1, 1)

\* C7: every value of a returned NDVI, NDWI or NDBI array lies in [-1, 1].
IndexValuesInRange ==
    \A f \in called :
        ~ret[f].raised =>
            \A i \in DOMAIN ret[f].value : InRange(ret[f].value[i])

(***************************************************************************)
(* Land-cover classifier.  A mask is an array of the floats 0.0 and 1.0,   *)
(* here 0 and 1.  The thresholds 0.5, 0.1 and -0.1 are the fractions 1/2,  *)
(* 1/10 and -1/10.                                                         *)
(***************************************************************************)
\* (boolean array).astype(float)
AsFloat(b) == IF b THEN 1 ELSE 0

\* lines 240-244: the five primary predicates
PrimaryClassification(vi, wi, bi) ==
    [built_up   |-> [i \in DOMAIN bi |-> AsFloat(Gt(bi[i], 0, 1))],
     forest     |-> [i \in DOMAIN vi |-> AsFloat(Gt(vi[i], 1, 2))],
     vegetation |-> [i \in DOMAIN vi |->
                        AsFloat(Gt(vi[i], 1, 10) /\ Le(vi[i], 1, 2))],
     water      |-> [i \in DOMAIN wi |-> AsFloat(Gt(wi[i], 0, 1))],
     barren     |-> [i \in DOMAIN vi |->
                        AsFloat(Ge(vi[i], -1, 10) /\ Le(vi[i], 1, 10))]]

\* target[cond > 0] = 0
ClearWhere(target, cond) ==
    [i \in DOMAIN target |-> IF cond[i] > 0 THEN 0 ELSE target[i]]

\* lines 247-249 with a fourth clear, built_up[built_up > 0] = 0
BuiltUpPass_clears_itself(m) ==
    LET m1 == [m EXCEPT !.vegetation = ClearWhere(@, m.built_up)]
        m2 == [m1 EXCEPT !.forest = ClearWhere(@, m1.built_up)]
        m3 == [m2 EXCEPT !.barren = ClearWhere(@, m2.built_up)]
    IN  [m3 EXCEPT !.built_up = ClearWhere(@, m.built_up)]

\* lines 247-249: built-up wins over vegetation, forest and barren
BuiltUpPass(m) ==
    LET m1 == [m EXCEPT !.vegetation = ClearWhere(@, m.built_up)]
        m2 == [m1 EXCEPT !.forest = ClearWhere(@, m1.built_up)]
    IN  [m2 EXCEPT !.barren = ClearWhere(@, m2.built_up)]

\* lines 251-253, without line 254 (built_up[water > 0] = 0)
WaterPass_keeps_built_up(m) ==
    LET m1 == [m EXCEPT !.forest = ClearWhere(@, m.water)]
        m2 == [m1 EXCEPT !.vegetation = ClearWhere(@, m1.water)]
    IN  [m2 EXCEPT !.barren = ClearWhere(@, m2.water)]

\* lines 251-254 with line 254 reversed (water[built_up > 0] = 0)
WaterPass_built_up_wins(m) ==
    LET m1 == [m EXCEPT !.forest = ClearWhere(@, m.water)]
        m2 == [m1 EXCEPT !.vegetation = ClearWhere(@, m1.water)]
        m3 == [m2 EXCEPT !.barren = ClearWhere(@, m2.water)]
    IN  [m3 EXCEPT !.water = ClearWhere(@, m3.built_up)]

\* lines 251-254: water wins over forest, vegetation, barren and built-up
WaterPass(m) ==
    LET m1 == [m EXCEPT !.forest = ClearWhere(@, m.water)]
        m2 == [m1 EXCEPT !.vegetation = ClearWhere(@, m1.water)]
        m3 == [m2 EXCEPT !.barren = ClearWhere(@, m2.water)]
    IN  [m3 EXCEPT !.built_up = ClearWhere(@, m3.water)]

classify_land_cover(vi, wi, bi) ==
    WaterPass(BuiltUpPass(PrimaryClassification(vi, wi, bi)))

ClassNames == {"built_up", "water", "forest", "vegetation", "barren"}

(***************************************************************************)
(* SpecClassify: classify_land_cover called on three index arrays of the   *)
(* same shape, of 1..MaxPixelsClassify pixels, whose values lie on, between *)
(* and beyond the thresholds, NaN included.                                *)
(***************************************************************************)
Rat(p, q) == Frac(<<p, 0>>, <<q, 0>>)

NdviValues ==
    {Rat(-1, 2), Rat(-1, 10), Rat(1, 10), Rat(1, 2), Rat(3, 5), NaN}

NdwiValues == {Rat(-3, 10), Rat(0, 1), Rat(3, 10), NaN}

NdbiValues == {Rat(-1, 5), Rat(0, 1), Rat(1, 5), NaN}

InitClassify ==
    /\ IdxIdle
    /\ RunIdle
    /\ SrvIdle
    /\ ChgIdle
    /\ \E P \in 1..MaxPixelsClassify :
          /\ ndvi \in [1..P -> NdviValues]
          /\ ndwi \in [1..P -> NdwiValues]
          /\ ndbi \in [1..P -> NdbiValues]
    /\ masks = NoMasks
    /\ perc = <<>>
    /\ stage = "args"

Classify ==
    /\ stage = "args"
    /\ masks' = classify_land_cover(ndvi, ndwi, ndbi)
    /\ stage' = "classified"
    /\ UNCHANGED <<notClsVars, ndvi, ndwi, ndbi, perc>>

NextClassify == Classify

SpecClassify == InitClassify /\ [][NextClassify]_vars

\* C1: after classify_land_cover returns, every mask value is 0.0 or 1.0
\* and at most one of the five masks is 1.0 at each pixel.
MutualExclusivity ==
    stage = "classified" =>
        \A i \in DOMAIN ndvi :
            /\ \A c \in ClassNames : masks[c][i] \in {0, 1}
            /\ masks.built_up[i] + masks.water[i] + masks.forest[i]
                   + masks.vegetation[i] + masks.barren[i] =< 1

\* a pixel whose water, built-up and forest predicates all hold is water only
MutualExclusivityWitness ==
    /\ stage = "classified"
    /\ \E i \in DOMAIN ndvi :
          /\ ndvi[i] = Rat(3, 5) /\ ndwi[i] = Rat(3, 10) /\ ndbi[i] = Rat(1, 5)
          /\ masks.water[i] = 1
          /\ masks.built_up[i] = 0 /\ masks.forest[i] = 0

\* the primary predicates of section 4.2 on one pixel
PredW(i) == ~IsNaN(ndwi[i]) /\ CmpRat(ndwi[i], 0, 1) = 1

PredB(i) == ~IsNaN(ndbi[i]) /\ CmpRat(ndbi[i], 0, 1) = 1

PredF(i) == ~IsNaN(ndvi[i]) /\ CmpRat(ndvi[i], 1, 2) = 1

PredV(i) ==
    ~IsNaN(ndvi[i]) /\ CmpRat(ndvi[i], 1, 10) = 1 /\ CmpRat(ndvi[i], 1, 2) # 1

PredR(i) ==
    ~IsNaN(ndvi[i]) /\ CmpRat(ndvi[i], -1, 10) # -1 /\ CmpRat(ndvi[i], 1, 10) # 1

\* C2: precedence water > built_up > forest / vegetation / barren: with
\* W = NDWI > 0, B = NDBI > 0, F = NDVI > 0.5, V = 0.1 < NDVI <= 0.5 and
\* R = -0.1 <= NDVI <= 0.1, the final masks are water = W, built_up = B and
\* not W, and forest, vegetation, barren = F, V, R and not B and not W.
Precedence ==
    stage = "classified" =>
        \A i \in DOMAIN ndvi :
            /\ masks.water[i] = 1 <=> PredW(i)
            /\ masks.built_up[i] = 1 <=> (PredB(i) /\ ~PredW(i))
            /\ masks.forest[i] = 1 <=> (PredF(i) /\ ~PredB(i) /\ ~PredW(i))
            /\ masks.vegetation[i] = 1 <=> (PredV(i) /\ ~PredB(i) /\ ~PredW(i))
            /\ masks.barren[i] = 1 <=> (PredR(i) /\ ~PredB(i) /\ ~PredW(i))

OnlyClass(i, c) ==
    \A k \in ClassNames : masks[k][i] = (IF k = c THEN 1 ELSE 0)

\* the two scenarios of section 8: NDVI 0.6 with NDBI 0.2 is built_up only,
\* NDWI 0.3 with NDBI 0.2 is water only
PrecedenceWitness ==
    /\ stage = "classified"
    /\ \E i \in DOMAIN ndvi :
          /\ ndvi[i] = Rat(3, 5) /\ ndbi[i] = Rat(1, 5) /\ ndwi[i] = Rat(0, 1)
          /\ OnlyClass(i, "built_up")
    /\ \E j \in DOMAIN ndvi :
          /\ ndwi[j] = Rat(3, 10) /\ ndbi[j] = Rat(1, 5)
          /\ OnlyClass(j, "water")

(***************************************************************************)
(* Zero-class pixels of classify_land_cover, under SpecClassify.           *)
(***************************************************************************)
\* pixel i is in none of the five returned masks
ZeroClass(i) == \A c \in ClassNames : masks[c][i] = 0

\* the masks of lines 240-244, before the two priority passes
Primary == PrimaryClassification(ndvi, ndwi, ndbi)

\* pixel i is in none of the primary masks pm
NoPrimary(pm, i) == \A c \in ClassNames : pm[c][i] = 0

\* NDVI < -0.1 and NDWI <= 0 and NDBI <= 0, as floats compare
BelowThresholds(i) ==
    Lt(ndvi[i], -1, 10) /\ Le(ndwi[i], 0, 1) /\ Le(ndbi[i], 0, 1)

\* a pixel that a pass removed from a class of pm is in water or in built_up
ClearedKeepsClearingClass(pm, i) ==
    \A c \in ClassNames :
        (pm[c][i] = 1 /\ masks[c][i] = 0) =>
            (masks.water[i] = 1 \/ masks.built_up[i] = 1)

LimbBase == 32768

FxInt(c) == <<0, 0, 0, 0, c>>

RECURSIVE FxCmpFrom(_, _, _)
FxCmpFrom(x, y, i) ==
    IF i = 0 THEN 0
    ELSE IF x[i] > y[i] THEN 1
    ELSE IF x[i] < y[i] THEN -1
    ELSE FxCmpFrom(x, y, i - 1)

\* the sign of x - y
FxCmp(x, y) == FxCmpFrom(x, y, 5)

\* carries (or borrows) moved up, so that each digit but the top is in range
FxNorm(t) ==
    LET c1 == t[1] \div LimbBase
        d2 == t[2] + c1
        c2 == d2 \div LimbBase
        d3 == t[3] + c2
        c3 == d3 \div LimbBase
        d4 == t[4] + c3
        c4 == d4 \div LimbBase
    IN  <<t[1] % LimbBase, d2 % LimbBase, d3 % LimbBase, d4 % LimbBase, t[5] + c4>>

FxAdd(x, y) == FxNorm([i \in 1..5 |-> x[i] + y[i]])

\* x - y for x >= y
FxSub(x, y) == FxNorm([i \in 1..5 |-> x[i] - y[i]])

\* x * m for an integer 0 <= m < 2^15
FxMulSmall(x, m) == FxNorm([i \in 1..5 |-> x[i] * m])

\* x / n for an integer 0 < n < 2^15, truncated to a multiple of 2^-60;
\* sticky: the truncation dropped something
FxDivSmall(x, n) ==
    LET t5 == x[5]
        t4 == (t5 % n) * LimbBase + x[4]
        t3 == (t4 % n) * LimbBase + x[3]
        t2 == (t3 % n) * LimbBase + x[2]
        t1 == (t2 % n) * LimbBase + x[1]
    IN  [val |-> <<t1 \div n, t2 \div n, t3 \div n, t4 \div n, t5 \div n>>,
         sticky |-> (t1 % n) # 0]

\* the number of bits of v >= 1
BitLen(v) == CHOOSE k \in 1..30 : 2^(k - 1) =< v /\ v < 2^k

\* round to nearest even at 53 significant bits
Round53(x, sticky) ==
    IF x = FxInt(0) THEN x
    ELSE
      LET k == CHOOSE i \in 1..5 : x[i] # 0 /\ \A j \in (i + 1)..5 : x[j] = 0
          top == 15 * (k - 1) + BitLen(x[k]) - 1
          s == top - 52
      IN  IF s =< 0 THEN x
          ELSE
            LET lo2 == x[1] + LimbBase * x[2]
                rem == lo2 % (2^s)
                half == 2^(s - 1)
                odd == (lo2 \div (2^s)) % 2 = 1
                up == rem > half \/ (rem = half /\ (sticky \/ odd))
                new == lo2 - rem + (IF up THEN 2^s ELSE 0)
            IN  FxNorm(<<new % LimbBase, new \div LimbBase, x[3], x[4], x[5]>>)

\* np.float64 / int
F64DivInt(x, n) ==
    LET q == FxDivSmall(x, n) IN Round53(q.val, q.sticky)

\* np.float64 * int
F64MulInt(x, m) == Round53(FxMulSmall(x, m), FALSE)

(***************************************************************************)
(* Percentage aggregator.                                                  *)
(***************************************************************************)
RECURSIVE SumFrom(_, _)
SumFrom(a, i) == IF i = 0 THEN 0 ELSE a[i] + SumFrom(a, i - 1)

\* np.sum of a mask of 0.0 / 1.0 values: exact, the number of 1.0 values
NpSum(a) == SumFrom(a, Len(a))

\* np.sum(mask) / total_pixels with the product by 100 left out
Percentage_no_times_100(mask, total_pixels) ==
    F64DivInt(FxInt(NpSum(mask)), total_pixels)

\* np.sum(mask) / total_pixels * 100
Percentage(mask, total_pixels) ==
    F64MulInt(F64DivInt(FxInt(NpSum(mask)), total_pixels), 100)

calculate_land_cover_percentages(m) ==
    LET total_pixels == Len(m.built_up)
    IN  [c \in ClassNames |-> Percentage(m[c], total_pixels)]

(***************************************************************************)
(* SpecPercent: classify_land_cover, then calculate_land_cover_percentages *)
(* on its masks, for images of 1..MaxPixelsPercent pixels whose pixels are *)
(* drawn from one index triple per outcome of the classifier.              *)
(***************************************************************************)
IndexPalette ==
    {<<Rat(3, 5), Rat(3, 10), Rat(1, 5)>>,      \* water
     <<Rat(3, 5), Rat(0, 1), Rat(1, 5)>>,       \* built-up
     <<Rat(3, 5), Rat(-3, 10), Rat(-1, 5)>>,    \* forest
     <<Rat(1, 2), Rat(-3, 10), Rat(-1, 5)>>,    \* vegetation
     <<Rat(1, 10), Rat(0, 1), Rat(0, 1)>>,      \* barren
     <<Rat(-1, 2), Rat(-3, 10), Rat(-1, 5)>>,   \* no class
     <<NaN, NaN, NaN>>}                         \* no class

InitPercent ==
    /\ IdxIdle
    /\ RunIdle
    /\ SrvIdle
    /\ ChgIdle
    /\ \E P \in 1..MaxPixelsPercent : \E t \in [1..P -> IndexPalette] :
          /\ ndvi = [i \in 1..P |-> t[i][1]]
          /\ ndwi = [i \in 1..P |-> t[i][2]]
          /\ ndbi = [i \in 1..P |-> t[i][3]]
    /\ masks = NoMasks
    /\ perc = <<>>
    /\ stage = "args"

CalculatePercentages ==
    /\ stage = "classified"
    /\ perc' = calculate_land_cover_percentages(masks)
    /\ stage' = "percentages"
    /\ UNCHANGED <<notClsVars, ndvi, ndwi, ndbi, masks>>

NextPercent == Classify \/ CalculatePercentages

SpecPercent == InitPercent /\ [][NextPercent]_vars

\* the number of pixels of class c, and whether pixel i has no class
PixelCount(c) == Cardinality({i \in DOMAIN masks[c] : masks[c][i] = 1})

Classless(i) == \A c \in ClassNames : masks[c][i] = 0

ClassifiedCount ==
    PixelCount("built_up") + PixelCount("water") + PixelCount("forest")
        + PixelCount("vegetation") + PixelCount("barren")

\* the sum of the five returned values, exact
PercSum ==
    FxAdd(FxAdd(FxAdd(FxAdd(perc.built_up, perc.water), perc.forest),
                perc.vegetation), perc.barren)

\* C4 as stated: each percentage lies in [0, 100], the five sum to at most
\* 100, and to less than 100 exactly when some pixel belongs to no class.
PercentagesSumTo100 ==
    stage = "percentages" =>
        /\ \A c \in ClassNames :
              FxCmp(perc[c], FxInt(0)) >= 0 /\ FxCmp(perc[c], FxInt(100)) =< 0
        /\ FxCmp(PercSum, FxInt(100)) =< 0
        /\ FxCmp(PercSum, FxInt(100)) < 0 <=> \E i \in DOMAIN ndvi : Classless(i)

\* 2^-45
RoundingBound == <<0, 1, 0, 0, 0>>

\* |x - 100 * count / total| =< k * 2^-45, with both sides times total
NearPercentOf(x, count, total, k) ==
    LET a == FxMulSmall(x, total)
        b == FxInt(100 * count)
        t == FxMulSmall(RoundingBound, k * total)
    IN  FxCmp(FxAdd(a, t), b) >= 0 /\ FxCmp(a, FxAdd(b, t)) =< 0

\* C4 as amended: each returned value is count / total * 100 to within the
\* float64 rounding error 2^-45 and lies in [0, 100]; the five counts sum
\* to at most the number of pixels, to less exactly when some pixel belongs
\* to no class, so that the five values sum to 100 * classified / total to
\* within 5 * 2^-45.
PercentagesUpToRounding ==
    stage = "percentages" =>
        LET total == Len(ndvi)
        IN  /\ \A c \in ClassNames :
                  /\ NearPercentOf(perc[c], PixelCount(c), total, 1)
                  /\ FxCmp(perc[c], FxInt(0)) >= 0
                  /\ FxCmp(perc[c], FxInt(100)) =< 0
            /\ ClassifiedCount =< total
            /\ ClassifiedCount < total <=> \E i \in DOMAIN ndvi : Classless(i)
            /\ NearPercentOf(PercSum, ClassifiedCount, total, 5)

\* three pixels, each in a class, one third and two thirds: the returned
\* values sum to less than 100
PercentagesRoundingWitness ==
    /\ stage = "percentages"
    /\ Len(ndvi) = 3
    /\ \A i \in DOMAIN ndvi : ~Classless(i)
    /\ PixelCount("forest") = 1 /\ PixelCount("water") = 2
    /\ FxCmp(PercSum, FxInt(100)) < 0

(***************************************************************************)
(* Change detector.  The change map is a uint8 array, 255 (white) where    *)
(* the pixel changed and 0 (black) elsewhere; create_change_map saves it   *)
(* as an image and returns it.                                             *)
(***************************************************************************)
Abs(x) == IF x < 0 THEN 0 - x ELSE x

\* the per-class difference without np.abs: only pixels gained count
ClassChange_without_abs(m1, m2) == [i \in DOMAIN m1 |-> 10 * (m2[i] - m1[i]) > 1]

\* np.abs(m2 - m1) > change_threshold, change_threshold = 0.1 = 1/10
ClassChange(m1, m2) == [i \in DOMAIN m1 |-> 10 * Abs(m2[i] - m1[i]) > 1]

\* line 305 without its last operand (| barren_change)
TotalChange_without_barren(a, b) ==
    [i \in DOMAIN a.built_up |->
        \/ ClassChange(a.built_up, b.built_up)[i]
        \/ ClassChange(a.water, b.water)[i]
        \/ ClassChange(a.forest, b.forest)[i]
        \/ ClassChange(a.vegetation, b.vegetation)[i]]

\* lines 298-305
TotalChange(a, b) ==
    [i \in DOMAIN a.built_up |->
        \/ ClassChange(a.built_up, b.built_up)[i]
        \/ ClassChange(a.water, b.water)[i]
        \/ ClassChange(a.forest, b.forest)[i]
        \/ ClassChange(a.vegetation, b.vegetation)[i]
        \/ ClassChange(a.barren, b.barren)[i]]

create_change_map(a, b) ==
    LET total_change == TotalChange(a, b)
    IN  [i \in DOMAIN total_change |-> IF total_change[i] THEN 255 ELSE 0]

(***************************************************************************)
(* SpecChange: create_change_map called on two sets of five binary masks   *)
(* of the same shape, any ten masks of 1..MaxPixelsChange pixels.          *)
(***************************************************************************)
MaskSets(P) == [ClassNames -> [1..P -> {0, 1}]]

InitChange ==
    /\ IdxIdle
    /\ RunIdle
    /\ SrvIdle
    /\ ClsIdle
    /\ \E P \in 1..MaxPixelsChange :
          masks1 \in MaskSets(P) /\ masks2 \in MaskSets(P)
    /\ change_map = <<>>

CreateChangeMap ==
    /\ change_map = <<>>
    /\ change_map' = create_change_map(masks1, masks2)
    /\ UNCHANGED <<notChgVars, masks1, masks2>>

NextChange == CreateChangeMap

SpecChange == InitChange /\ [][NextChange]_vars

\* C3: a pixel is marked changed (255) if and only if at least one of its
\* five class memberships differs between the two sets of masks, and is
\* marked unchanged (0) otherwise.
ChangedIffMembershipDiffers ==
    change_map # <<>> =>
        \A i \in DOMAIN masks1.built_up :
            /\ change_map[i] \in {0, 255}
            /\ change_map[i] = 255 <=>
                  \E c \in ClassNames : masks1[c][i] # masks2[c][i]

\* a pixel whose only difference is its barren membership is marked changed
ChangedWitness ==
    /\ change_map # <<>>
    /\ \E i \in DOMAIN masks1.built_up :
          /\ masks1.barren[i] = 1 /\ masks2.barren[i] = 0
          /\ \A c \in ClassNames \ {"barren"} : masks1[c][i] = masks2[c][i]
          /\ change_map[i] = 255

(***************************************************************************)
(* float64 arithmetic of the change record: signed doubles                 *)
(* [neg, mag], mag as above.                                               *)
(***************************************************************************)
\* x - y of two non-negative doubles
F64Sub(x, y) ==
    IF FxCmp(x, y) >= 0
    THEN [neg |-> FALSE, mag |-> Round53(FxSub(x, y), FALSE)]
    ELSE [neg |-> TRUE, mag |-> Round53(FxSub(y, x), FALSE)]

\* x + y of two non-negative doubles
F64Add(x, y) == Round53(FxAdd(x, y), FALSE)

(***************************************************************************)
(* Pipeline orchestrator.  A raster file is a pixel array of raw values;   *)
(* the values used are 0, 1.0 and the integers above 1, whose quotient by  *)
(* 255 is a band value of the form this model keeps.                       *)
(***************************************************************************)
NoImage == [bands |-> 0, px |-> <<>>]

\* image.max() > 1.0
MaxAboveOne(img) ==
    \E i \in DOMAIN img.px : \E k \in DOMAIN img.px[i] :
        VSign(VSub(img.px[i][k], VOne)) > 0

\* lines 27-37: read, cast to float32, divide by 255 when above 1.0
read_and_preprocess(file) ==
    IF MaxAboveOne(file)
    THEN [bands |-> file.bands,
          px |-> [i \in DOMAIN file.px |->
                    [k \in DOMAIN file.px[i] |->
                        <<file.px[i][k][1] \div 255, file.px[i][k][2] \div 255>>]]]
    ELSE file

NoResult == [image1 |-> <<>>, image2 |-> <<>>, change |-> <<>>,
             total_change_area |-> FxInt(0)]

\* the locals of run_lulc_change_analysis(image1_path, image2_path), the
\* two files as they are when the run reads them
RunLocals(f1, f2) ==
    [file1 |-> f1, file2 |-> f2,
     image1 |-> NoImage, image2 |-> NoImage,
     idx1 |-> NoRet, idx2 |-> NoRet,
     masks1 |-> NoMasks, masks2 |-> NoMasks,
     change_map |-> <<>>,
     perc1 |-> <<>>, perc2 |-> <<>>, change_stats |-> <<>>,
     outputs |-> {}, raised |-> FALSE, result |-> NoResult]

\* step 1: the two previews (generate_rgb_preview catches its own errors)
StepPreviews(L) ==
    [L EXCEPT !.outputs = @ \cup {"preview_image1.png", "preview_image2.png"}]

\* step 2
StepRead(L) ==
    [L EXCEPT !.image1 = read_and_preprocess(L.file1),
              !.image2 = read_and_preprocess(L.file2)]

\* step 3 with image1 passed to the three calls for image 2
Indices2_of_image1(L) ==
    [ndvi |-> calculate_ndvi(L.image1),
     ndwi |-> calculate_ndwi(L.image1),
     ndbi |-> calculate_ndbi(L.image1)]

Indices1(L) ==
    [ndvi |-> calculate_ndvi(L.image1),
     ndwi |-> calculate_ndwi(L.image1),
     ndbi |-> calculate_ndbi(L.image1)]

Indices2(L) ==
    [ndvi |-> calculate_ndvi(L.image2),
     ndwi |-> calculate_ndwi(L.image2),
     ndbi |-> calculate_ndbi(L.image2)]

AnyRaised(idx) == idx.ndvi.raised \/ idx.ndwi.raised \/ idx.ndbi.raised

\* step 3
StepIndices(L) ==
    LET i1 == Indices1(L)
        i2 == Indices2(L)
    IN  IF AnyRaised(i1) \/ AnyRaised(i2) THEN [L EXCEPT !.raised = TRUE]
        ELSE [L EXCEPT !.idx1 = i1, !.idx2 = i2]

\* step 4
StepClassify(L) ==
    [L EXCEPT
        !.masks1 = classify_land_cover(L.idx1.ndvi.value, L.idx1.ndwi.value,
                                       L.idx1.ndbi.value),
        !.masks2 = classify_land_cover(L.idx2.ndvi.value, L.idx2.ndwi.value,
                                       L.idx2.ndbi.value)]

\* numpy broadcasting of a mask (a single row of pixels) to P pixels
BroadcastTo(m, P) ==
    [c \in DOMAIN m |-> [i \in 1..P |-> IF Len(m[c]) = 1 THEN m[c][1] ELSE m[c][i]]]

\* step 5: built2 - built1 raises on two masks of different shapes, unless
\* one of them has a single pixel and is broadcast to the other's shape
StepChangeMap(L) ==
    LET P1 == Len(L.masks1.built_up)
        P2 == Len(L.masks2.built_up)
        P == IF P1 > P2 THEN P1 ELSE P2
    IN  IF P1 # P2 /\ P1 # 1 /\ P2 # 1
        THEN [L EXCEPT !.raised = TRUE]
        ELSE [L EXCEPT !.change_map = create_change_map(BroadcastTo(L.masks1, P),
                                                        BroadcastTo(L.masks2, P)),
                       !.outputs = @ \cup {"change_map.png"}]

\* line 431: {k: perc2[k] - perc1[k] for k in perc1}
ChangeStats(perc1, perc2) ==
    [k \in ClassNames |-> F64Sub(perc2[k], perc1[k])]

\* step 6
StepPercentages(L) ==
    LET p1 == calculate_land_cover_percentages(L.masks1)
        p2 == calculate_land_cover_percentages(L.masks2)
    IN  [L EXCEPT !.perc1 = p1, !.perc2 = p2,
                  !.change_stats = ChangeStats(p1, p2)]

\* line 463 without the division by 2
TotalChangeArea_without_halving(cs) ==
    LET s1 == F64Add(FxInt(0), cs.built_up.mag)
        s2 == F64Add(s1, cs.water.mag)
        s3 == F64Add(s2, cs.forest.mag)
        s4 == F64Add(s3, cs.vegetation.mag)
    IN  F64Add(s4, cs.barren.mag)

\* line 463: sum(abs(v) for v in change_stats.values()) / 2, the values
\* in the order of the record's keys
TotalChangeArea(cs) ==
    LET s1 == F64Add(FxInt(0), cs.built_up.mag)
        s2 == F64Add(s1, cs.water.mag)
        s3 == F64Add(s2, cs.forest.mag)
        s4 == F64Add(s3, cs.vegetation.mag)
        s5 == F64Add(s4, cs.barren.mag)
    IN  F64DivInt(s5, 2)

\* step 7: the comparison graph, the CSV and the returned record
StepReturn(L) ==
    [L EXCEPT
        !.outputs = @ \cup {"comparison_graph.png", "change_matrix.csv"},
        !.result = [image1 |-> L.perc1, image2 |-> L.perc2,
                    change |-> L.change_stats,
                    total_change_area |-> TotalChangeArea(L.change_stats)]]

\* step n of the seven steps of run_lulc_change_analysis
ApplyStep(n, L) ==
    CASE n = 1 -> StepPreviews(L)
      [] n = 2 -> StepRead(L)
      [] n = 3 -> StepIndices(L)
      [] n = 4 -> StepClassify(L)
      [] n = 5 -> StepChangeMap(L)
      [] n = 6 -> StepPercentages(L)
      [] n = 7 -> StepReturn(L)

\* The runs compared advance together, one step of the function at a time;
\* a run that raised is left where it is.
Advance(n, from, to) ==
    /\ rpc = from
    /\ runs' = [r \in DOMAIN runs |->
                    IF runs[r].raised THEN runs[r] ELSE ApplyStep(n, runs[r])]
    /\ rpc' = to
    /\ UNCHANGED notRunVars

RunPreviews == Advance(1, "step1", "step2")

RunRead == Advance(2, "step2", "step3")

RunIndices == Advance(3, "step3", "step4")

RunClassify == Advance(4, "step4", "step5")

RunChangeMap == Advance(5, "step5", "step6")

RunPercentages == Advance(6, "step6", "step7")

RunReturn == Advance(7, "step7", "returned")

NextRun ==
    \/ RunPreviews
    \/ RunRead
    \/ RunIndices
    \/ RunClassify
    \/ RunChangeMap
    \/ RunPercentages
    \/ RunReturn

\* Raster files: pixels of five raw bands (blue, green, red, NIR, SWIR),
\* cut to the file's band count.
Raw(v) == <<255 * v, 0>>

PixelPalette ==
    {<<Raw(30), Raw(50), Raw(40), Raw(200), Raw(100)>>,   \* forest
     <<VZero, VOne, VZero, VZero, VZero>>,                \* water, 0-1 range
     <<Raw(30), Raw(50), Raw(90), Raw(100), Raw(200)>>,   \* built-up
     <<Raw(30), Raw(50), Raw(100), Raw(50), Raw(50)>>}    \* no class

BandCounts == {3, 4, 5}

File(B, t) == [bands |-> B, px |-> [i \in DOMAIN t |-> SubSeq(t[i], 1, B)]]

Files(P) == {File(B, t) : B \in BandCounts, t \in [1..P -> PixelPalette]}

(***************************************************************************)
(* SpecSwap: run_lulc_change_analysis on two files of the same height and  *)
(* width, beside the run on the same two files exchanged.                  *)
(***************************************************************************)
InitSwap ==
    /\ IdxIdle /\ ClsIdle /\ ChgIdle /\ SrvIdle
    /\ \E P \in 1..MaxPixelsRun : \E a \in Files(P), b \in Files(P) :
          runs = [ab |-> RunLocals(a, b), ba |-> RunLocals(b, a)]
    /\ rpc = "step1"

SpecSwap == InitSwap /\ [][NextRun]_vars

\* y = -x for two signed doubles (-0.0 = 0.0)
Negated(x, y) == x.mag = y.mag /\ (x.mag = FxInt(0) \/ x.neg # y.neg)

\* C5: exchanging the two input files of a run leaves the change mask
\* the same at every pixel, negates every per-class delta of the change
\* record and leaves total_change_area unchanged.
SwapSymmetry ==
    (rpc = "returned" /\ DOMAIN runs = {"ab", "ba"}) =>
        /\ ~runs.ab.raised /\ ~runs.ba.raised
        /\ runs.ab.change_map = runs.ba.change_map
        /\ \A k \in ClassNames :
              Negated(runs.ab.result.change[k], runs.ba.result.change[k])
        /\ runs.ab.result.total_change_area = runs.ba.result.total_change_area

\* C5 witness: a returned pair of runs with a changed and an unchanged
\* pixel, a class that lost and a class that gained, and a total that is
\* not zero.
SwapSymmetryWitness ==
    /\ rpc = "returned" /\ DOMAIN runs = {"ab", "ba"}
    /\ \E i, j \in DOMAIN runs.ab.change_map :
          runs.ab.change_map[i] = 255 /\ runs.ab.change_map[j] = 0
    /\ \E k, l \in ClassNames :
          /\ runs.ab.result.change[k].neg /\ ~runs.ba.result.change[k].neg
          /\ ~runs.ab.result.change[l].neg
          /\ runs.ab.result.change[l].mag # FxInt(0)
    /\ runs.ab.result.total_change_area # FxInt(0)
    /\ runs.ab.file1.bands # runs.ab.file2.bands

(***************************************************************************)
(* SpecIsolate: three files a, b, c of the same height and width and any   *)
(* band counts; the run on (a, b) beside the runs on (a, c) and (c, b).    *)
(* c is b with another band count or b with other pixel values; any other  *)
(* replacement of b is a chain of these two.                               *)
(***************************************************************************)
Replacements(B, t) ==
    {File(C, t) : C \in BandCounts \ {B}}
        \cup {File(B, u) : u \in [DOMAIN t -> PixelPalette] \ {t}}

InitIsolate ==
    /\ IdxIdle /\ ClsIdle /\ ChgIdle /\ SrvIdle
    /\ \E P \in 1..MaxPixelsIsolate :
          \E a \in Files(P), B \in BandCounts, t \in [1..P -> PixelPalette] :
              \E c \in Replacements(B, t) :
                  runs = [ab |-> RunLocals(a, File(B, t)),
                          ac |-> RunLocals(a, c),
                          cb |-> RunLocals(c, File(B, t))]
    /\ rpc = "step1"

SpecIsolate == InitIsolate /\ [][NextRun]_vars

\* C8: whatever the band counts of the two files, no run aborts, and the
\* percentage record returned for an image does not change when the other
\* image of the run is replaced.
PerImageIsolation ==
    DOMAIN runs = {"ab", "ac", "cb"} =>
        /\ \A r \in DOMAIN runs : ~runs[r].raised
        /\ rpc = "returned" =>
              /\ runs.ab.result.image1 = runs.ac.result.image1
              /\ runs.ab.result.image2 = runs.cb.result.image2

\* C8 witness: returned runs in which image 1 lacks SWIR, the other image
\* was replaced by one of another band count whose own record differs.
PerImageIsolationWitness ==
    /\ rpc = "returned" /\ DOMAIN runs = {"ab", "ac", "cb"}
    /\ runs.ab.file1.bands < 5
    /\ runs.ab.file2.bands > runs.ac.file2.bands
    /\ runs.ab.result.image2 # runs.ac.result.image2
    /\ runs.ab.result.image1 # runs.cb.result.image1
    /\ \A r \in DOMAIN runs : ~runs[r].raised

(***************************************************************************)
(* SpecTotal: one run of run_lulc_change_analysis on two 5-band files of   *)
(* 1..MaxPixelsTotal pixels.  A pixel of the pair of files is one of six   *)
(* transitions; the pixels are laid out transition by transition.          *)
(***************************************************************************)
PxBuiltUp == <<Raw(30), Raw(50), Raw(90), Raw(100), Raw(200)>>

PxWater == <<Raw(30), Raw(100), Raw(40), Raw(20), Raw(10)>>

PxForest == <<Raw(30), Raw(50), Raw(40), Raw(200), Raw(100)>>

PxBarren == <<Raw(30), Raw(50), Raw(100), Raw(100), Raw(80)>>

\* <<pixel of image 1, pixel of image 2>>
Transitions ==
    <<<<PxBuiltUp, PxBuiltUp>>, <<PxBuiltUp, PxWater>>, <<PxForest, PxWater>>,
      <<PxWater, PxForest>>, <<PxBuiltUp, PxForest>>, <<PxBarren, PxForest>>>>

Rep(x, k) == [i \in 1..k |-> x]

\* k[j] pixels of transition j, for each j
Layout(k) ==
    Rep(Transitions[1], k[1]) \o Rep(Transitions[2], k[2])
        \o Rep(Transitions[3], k[3]) \o Rep(Transitions[4], k[4])
        \o Rep(Transitions[5], k[5]) \o Rep(Transitions[6], k[6])

InitTotal ==
    /\ IdxIdle /\ ClsIdle /\ ChgIdle /\ SrvIdle
    /\ \E k1 \in 0..MaxPixelsTotal :
       \E k2 \in 0..(MaxPixelsTotal - k1) :
       \E k3 \in 0..(MaxPixelsTotal - k1 - k2) :
       \E k4 \in 0..(MaxPixelsTotal - k1 - k2 - k3) :
       \E k5 \in 0..(MaxPixelsTotal - k1 - k2 - k3 - k4) :
       \E k6 \in 0..(MaxPixelsTotal - k1 - k2 - k3 - k4 - k5) :
          /\ k1 + k2 + k3 + k4 + k5 + k6 >= 1
          /\ LET t == Layout(<<k1, k2, k3, k4, k5, k6>>)
             IN  runs = [ab |-> RunLocals(
                                  [bands |-> 5, px |-> [i \in DOMAIN t |-> t[i][1]]],
                                  [bands |-> 5, px |-> [i \in DOMAIN t |-> t[i][2]]])]
    /\ rpc = "step1"

SpecTotal == InitTotal /\ [][NextRun]_vars

\* the sum over the five classes of |pixels of the class in image 2 -
\* pixels of the class in image 1|
CountDeltaSum(L) ==
    Abs(NpSum(L.masks2.built_up) - NpSum(L.masks1.built_up))
        + Abs(NpSum(L.masks2.water) - NpSum(L.masks1.water))
        + Abs(NpSum(L.masks2.forest) - NpSum(L.masks1.forest))
        + Abs(NpSum(L.masks2.vegetation) - NpSum(L.masks1.vegetation))
        + Abs(NpSum(L.masks2.barren) - NpSum(L.masks1.barren))

\* the number of pixels marked changed in the change map
ChangedCount(L) ==
    Cardinality({i \in DOMAIN L.change_map : L.change_map[i] = 255})

\* C12 as stated: the returned total_change_area lies in [0, 100] and does
\* not exceed the percentage of pixels marked changed in the change map.
TotalWithinChanged ==
    (rpc = "returned" /\ DOMAIN runs = {"ab"}) =>
        LET L == runs.ab
            n == Len(L.change_map)
            total == L.result.total_change_area
        IN  /\ FxCmp(total, FxInt(0)) >= 0
            /\ FxCmp(total, FxInt(100)) =< 0
            /\ FxCmp(FxMulSmall(total, n), FxInt(100 * ChangedCount(L))) =< 0

\* C12 amended: the returned total_change_area is, to within the float64
\* rounding error 8 * 2^-45, the exact 100 * (sum over the classes of the
\* |pixel-count delta|) / (2 * pixels); that exact value lies in [0, 100]
\* and does not exceed the percentage of pixels marked changed, so the
\* returned value is at least 0 and exceeds neither bound by more than the
\* rounding error.
TotalWithinChangedUpToRounding ==
    (rpc = "returned" /\ DOMAIN runs = {"ab"}) =>
        LET L == runs.ab
            n == Len(L.change_map)
            total == L.result.total_change_area
            tol == FxMulSmall(RoundingBound, 8)
        IN  /\ NearPercentOf(total, CountDeltaSum(L), 2 * n, 8)
            /\ CountDeltaSum(L) =< 2 * ChangedCount(L)
            /\ ChangedCount(L) =< n
            /\ FxCmp(total, FxInt(0)) >= 0
            /\ FxCmp(total, FxAdd(FxInt(100), tol)) =< 0
            /\ FxCmp(FxMulSmall(total, n),
                     FxAdd(FxInt(100 * ChangedCount(L)), FxMulSmall(tol, n))) =< 0

\* C12 witness: a returned run whose change map marks pixels changed while
\* opposite transitions cancel in every delta, total_change_area = 0.
TotalWithinChangedWitness ==
    /\ rpc = "returned" /\ DOMAIN runs = {"ab"}
    /\ ChangedCount(runs.ab) > 0
    /\ runs.ab.result.total_change_area = FxInt(0)
    /\ NpSum(runs.ab.masks1.forest) > 0

(***************************************************************************)
(* The /analyze endpoint (main.py).  The handler is a coroutine without an *)
(* await, so the requests of one worker process run one after the other;   *)
(* worker processes serving the same application share the working         *)
(* directory, and their handlers interleave at the file operations.        *)
(***************************************************************************)
Workers == 1..NumWorkers

\* a file that rasterio cannot open: not a raster, or cut short
Corrupt == NoImage

Upload(ok, data) == [name_ok |-> ok, data |-> data]

OutputLinks ==
    {"/static/preview_image1.png", "/static/preview_image2.png",
     "/static/change_map.png", "/static/comparison_graph.png",
     "/static/change_matrix.csv"}

Response(status, results, outputs) ==
    [status |-> status, results |-> results, outputs |-> outputs]

NoResponse == Response(0, NoResult, {})

\* the except branch falling through to the return of lines 112-121
ExceptResponse_returns_partial(L) == Response(200, L.result, OutputLinks)

\* lines 123-125: raise HTTPException(status_code=500, ...)
ExceptResponse(L) == Response(500, NoResult, {})

\* analyze(image1, image2) on entry
NewRequest(w, up) ==
    [worker |-> w, upload |-> up, pc |-> "validate",
     L |-> RunLocals(NoImage, NoImage),
     pending |-> NoResponse, sent |-> <<>>,
     failed |-> FALSE, completed |-> {}]

\* an exception inside the try block: the except branch, then finally
Raise(q) ==
    [q EXCEPT !.failed = TRUE, !.pending = ExceptResponse(q.L), !.pc = "exists1"]

Completed(q, next) ==
    [q EXCEPT !.completed = @ \cup {q.pc}, !.pc = next]

\* the handler is left with a response or an exception for the client;
\* its locals are gone
Leave(q, resp) ==
    [q EXCEPT !.pc = "done", !.sent = <<resp>>,
              !.L = RunLocals(NoImage, NoImage), !.pending = NoResponse]

\* steps n to 7, step k raising (k = 0: no step raises by itself)
RECURSIVE RunFrom(_, _, _)
RunFrom(L, n, k) ==
    IF L.raised \/ n > 7 THEN L
    ELSE IF n = k THEN [L EXCEPT !.raised = TRUE]
    ELSE RunFrom(ApplyStep(n, L), n + 1, k)

\* The uploads of a request: two rasters of two pixels, the same two
\* exchanged, a raster of another width, a file that is no raster, and a
\* file name that is not .tif.
RasterA ==
    File(5, <<<<Raw(30), Raw(50), Raw(40), Raw(200), Raw(100)>>,
              <<Raw(30), Raw(50), Raw(90), Raw(100), Raw(200)>>>>)

RasterB ==
    File(4, <<<<VZero, VOne, VZero, VZero, VZero>>,
              <<Raw(30), Raw(50), Raw(100), Raw(50), Raw(50)>>>>)

RasterC ==
    File(3, <<<<Raw(30), Raw(50), Raw(40)>>, <<Raw(30), Raw(50), Raw(40)>>,
              <<Raw(30), Raw(50), Raw(40)>>>>)

RequestPalette ==
    {[image1 |-> Upload(TRUE, RasterA), image2 |-> Upload(TRUE, RasterB)],
     [image1 |-> Upload(TRUE, RasterB), image2 |-> Upload(TRUE, RasterA)],
     [image1 |-> Upload(TRUE, RasterA), image2 |-> Upload(TRUE, RasterC)],
     [image1 |-> Upload(TRUE, RasterA), image2 |-> Upload(TRUE, Corrupt)],
     [image1 |-> Upload(FALSE, RasterA), image2 |-> Upload(TRUE, RasterB)]}

Idle(w) == \A r \in DOMAIN reqs : reqs[r].worker = w => reqs[r].pc = "done"

\* a request reaches worker process w, which is not inside a handler
Accept(w) ==
    /\ Len(reqs) < MaxRequests
    /\ Idle(w)
    /\ \E up \in RequestPalette : reqs' = Append(reqs, NewRequest(w, up))
    /\ UNCHANGED <<fs, notSrvVars>>

\* lines 67-80
Validate(r) ==
    /\ reqs[r].pc = "validate"
    /\ reqs' = [reqs EXCEPT ![r] =
                  IF @.upload.image1.name_ok /\ @.upload.image2.name_ok
                  THEN [@ EXCEPT !.pc = "save1"]
                  ELSE Leave(@, Response(400, NoResult, {}))]
    /\ UNCHANGED <<fs, notSrvVars>>

\* open(path, "wb") and shutil.copyfileobj: either may raise
SaveUpload(r, path, next) ==
    /\ \E outcome \in {"saved", "open raised", "copy raised"} :
          /\ fs' = CASE outcome = "saved" ->
                          [fs EXCEPT ![path] = reqs[r].upload[path].data]
                     [] outcome = "open raised" -> fs
                     [] outcome = "copy raised" -> [fs EXCEPT ![path] = Corrupt]
          /\ reqs' = [reqs EXCEPT ![r] =
                        IF outcome = "saved" THEN Completed(@, next) ELSE Raise(@)]
    /\ UNCHANGED notSrvVars

\* lines 89-90
Save1(r) == reqs[r].pc = "save1" /\ SaveUpload(r, "image1", "save2")

\* lines 92-93
Save2(r) == reqs[r].pc = "save2" /\ SaveUpload(r, "image2", "getsize")

\* lines 95-96: os.path.getsize raises on a missing file
GetSize(r) ==
    /\ reqs[r].pc = "getsize"
    /\ reqs' = [reqs EXCEPT ![r] =
                  IF fs.image1 = Absent \/ fs.image2 = Absent
                  THEN Raise(@) ELSE Completed(@, "previews")]
    /\ UNCHANGED <<fs, notSrvVars>>

\* step 1 of the run: an unreadable file gives a placeholder; only the
\* saving of the image can raise
Previews(r) ==
    /\ reqs[r].pc = "previews"
    /\ \E outcome \in {"written", "save raised"} :
          reqs' = [reqs EXCEPT ![r] =
                     IF outcome = "written"
                     THEN Completed([@ EXCEPT !.L = StepPreviews(@)], "read1")
                     ELSE Raise(@)]
    /\ UNCHANGED <<fs, notSrvVars>>

\* read_and_preprocess(path): raises when the file is missing or no raster
ReadImage(r, path, file, img, next) ==
    /\ reqs' = [reqs EXCEPT ![r] =
                  IF fs[path] \in {Absent, Corrupt} THEN Raise(@)
                  ELSE Completed([@ EXCEPT !.L[file] = fs[path],
                                           !.L[img] = read_and_preprocess(fs[path])],
                                 next)]
    /\ UNCHANGED <<fs, notSrvVars>>

\* lulc.py line 404
Read1(r) ==
    reqs[r].pc = "read1" /\ ReadImage(r, "image1", "file1", "image1", "read2")

\* lulc.py line 405
Read2(r) ==
    reqs[r].pc = "read2" /\ ReadImage(r, "image2", "file2", "image2", "analyse")

\* steps 3 to 7 of the run on the two arrays read, and the return of
\* lines 112-121
Analyse(r) ==
    /\ reqs[r].pc = "analyse"
    /\ \E k \in {0} \cup 3..7 :
          LET L2 == RunFrom(reqs[r].L, 3, k)
          IN  reqs' = [reqs EXCEPT ![r] =
                         IF L2.raised THEN Raise([@ EXCEPT !.L = L2])
                         ELSE Completed(
                                [@ EXCEPT !.L = L2,
                                          !.pending = Response(200, L2.result,
                                                               OutputLinks)],
                                "exists1")]
    /\ UNCHANGED <<fs, notSrvVars>>

\* finally: if os.path.exists(path)
Exists(r, path, remove, next) ==
    /\ reqs' = [reqs EXCEPT ![r].pc = IF fs[path] # Absent THEN remove ELSE next]
    /\ UNCHANGED <<fs, notSrvVars>>

\* finally: os.remove(path); on a file that is gone it raises, and the
\* exception replaces what the handler was about to send
Remove(r, path, next) ==
    /\ IF fs[path] = Absent
       THEN /\ reqs' = [reqs EXCEPT ![r] = Leave(@, Response(500, NoResult, {}))]
            /\ fs' = fs
       ELSE /\ fs' = [fs EXCEPT ![path] = Absent]
            /\ reqs' = [reqs EXCEPT ![r].pc = next]
    /\ UNCHANGED notSrvVars

\* line 129
Exists1(r) == reqs[r].pc = "exists1" /\ Exists(r, "image1", "remove1", "exists2")

\* line 130
Remove1(r) == reqs[r].pc = "remove1" /\ Remove(r, "image1", "exists2")

\* line 132
Exists2(r) == reqs[r].pc = "exists2" /\ Exists(r, "image2", "remove2", "respond")

\* line 133
Remove2(r) == reqs[r].pc = "remove2" /\ Remove(r, "image2", "respond")

\* the handler returns or raises what is pending
Respond(r) ==
    /\ reqs[r].pc = "respond"
    /\ reqs' = [reqs EXCEPT ![r] = Leave(@, reqs[r].pending)]
    /\ UNCHANGED <<fs, notSrvVars>>

InitServer ==
    /\ IdxIdle /\ ClsIdle /\ ChgIdle /\ RunIdle
    /\ fs = [image1 |-> Absent, image2 |-> Absent]
    /\ reqs = <<>>

NextServer ==
    \/ \E w \in Workers : Accept(w)
    \/ \E r \in DOMAIN reqs : Validate(r)
    \/ \E r \in DOMAIN reqs : Save1(r)
    \/ \E r \in DOMAIN reqs : Save2(r)
    \/ \E r \in DOMAIN reqs : GetSize(r)
    \/ \E r \in DOMAIN reqs : Previews(r)
    \/ \E r \in DOMAIN reqs : Read1(r)
    \/ \E r \in DOMAIN reqs : Read2(r)
    \/ \E r \in DOMAIN reqs : Analyse(r)
    \/ \E r \in DOMAIN reqs : Exists1(r)
    \/ \E r \in DOMAIN reqs : Remove1(r)
    \/ \E r \in DOMAIN reqs : Exists2(r)
    \/ \E r \in DOMAIN reqs : Remove2(r)
    \/ \E r \in DOMAIN reqs : Respond(r)

SpecServer == InitServer /\ [][NextServer]_vars

(***************************************************************************)
(* SpecHandler: the application served by a single process, which takes    *)
(* the next request when the handler of the previous one has returned.     *)
(***************************************************************************)
NextHandler ==
    \/ Accept(1)
    \/ \E r \in DOMAIN reqs : Validate(r)
    \/ \E r \in DOMAIN reqs : Save1(r)
    \/ \E r \in DOMAIN reqs : Save2(r)
    \/ \E r \in DOMAIN reqs : GetSize(r)
    \/ \E r \in DOMAIN reqs : Previews(r)
    \/ \E r \in DOMAIN reqs : Read1(r)
    \/ \E r \in DOMAIN reqs : Read2(r)
    \/ \E r \in DOMAIN reqs : Analyse(r)
    \/ \E r \in DOMAIN reqs : Exists1(r)
    \/ \E r \in DOMAIN reqs : Remove1(r)
    \/ \E r \in DOMAIN reqs : Exists2(r)
    \/ \E r \in DOMAIN reqs : Remove2(r)
    \/ \E r \in DOMAIN reqs : Respond(r)

SpecHandler == InitServer /\ [][NextHandler]_vars

\* what run_lulc_change_analysis returns for the two uploads of a request
OwnResult(up) ==
    RunFrom(StepRead(RunLocals(up.image1.data, up.image2.data)), 3, 0).result

\* C9: between a request saving image1.tif / image2.tif and its run
\* reading them the two files hold that request's uploads, every run reads
\* its own request's two files, and the result sent to a request is the
\* result of the analysis of its own two uploads.
RunsIsolated ==
    \A r \in DOMAIN reqs :
        LET q == reqs[r] IN
        /\ q.pc \in {"save2", "getsize", "previews", "read1"} =>
              fs.image1 = q.upload.image1.data
        /\ q.pc \in {"getsize", "previews", "read1", "read2"} =>
              fs.image2 = q.upload.image2.data
        /\ ("read1" \in q.completed /\ q.pc # "done") =>
              q.L.file1 = q.upload.image1.data
        /\ ("read2" \in q.completed /\ q.pc # "done") =>
              q.L.file2 = q.upload.image2.data
        /\ \A i \in DOMAIN q.sent :
              q.sent[i].status = 200 => q.sent[i].results = OwnResult(q.upload)

\* the steps inside the try block
RunSteps ==
    {"save1", "save2", "getsize", "previews", "read1", "read2", "analyse"}

\* C10: a request whose run raised ends with one response, an error without
\* results or artifact links; a response with a result record or artifact
\* links is sent only after every step of the run completed without raising.
SingleErrorNoPartialResults ==
    \A r \in DOMAIN reqs :
        LET q == reqs[r] IN
        /\ Len(q.sent) <= 1
        /\ q.pc = "done" <=> Len(q.sent) = 1
        /\ (q.failed /\ q.pc = "done") =>
              /\ q.sent[1].status = 500
              /\ q.sent[1].results = NoResult
              /\ q.sent[1].outputs = {}
        /\ q.failed =>
              /\ q.pending.results = NoResult
              /\ q.pending.outputs = {}
        /\ (q.pending.results # NoResult \/ q.pending.outputs # {}) =>
              q.pending = Response(200, q.L.result, OutputLinks)
        /\ \A i \in DOMAIN q.sent :
              (q.sent[i].results # NoResult \/ q.sent[i].outputs # {}
                    \/ q.sent[i].status = 200) =>
                 /\ ~q.failed
                 /\ RunSteps \subseteq q.completed
                 /\ q.sent[i].status = 200
                 /\ q.sent[i].outputs = OutputLinks

\* C10 witness: a request that failed at the export step, with the change
\* map and the percentages of its run computed, has a bare error pending,
\* after a request that completed and was sent its results.
SingleErrorWitness ==
    \E r, t \in DOMAIN reqs :
        /\ reqs[r].pc = "respond" /\ reqs[r].failed
        /\ reqs[r].L.change_map # <<>>
        /\ "change_map.png" \in reqs[r].L.outputs
        /\ reqs[r].pending = Response(500, NoResult, {})
        /\ reqs[t].pc = "done" /\ ~reqs[t].failed
        /\ reqs[t].sent[1].status = 200
        /\ reqs[t].sent[1].results.total_change_area # FxInt(0)

=============================================================================
